---- MODULE Spec2Model ----
(***************************************************************************)
(* Model of xabspath() of toylib/xfile.c: canonicalisation of a path by    *)
(* iterating over its components with a directory handle, a pending list   *)
(* (todo), a resolved list (done) and a loop budget (try).                 *)
(*                                                                         *)
(* A C string is a sequence of one-character strings: "/b/c" is            *)
(* <<"/","b","/","c">>.  A component name is such a sequence without "/".  *)
(* A directory is identified by its location: the sequence of the names    *)
(* that lead to it from the root (<<>> is the root).                       *)
(***************************************************************************)
EXTENDS Integers, Sequences, FiniteSets, TLC

VARIABLES
  env,        \* the filesystem and working directory the process runs in
  pc,         \* "idle" | "loop" (line 182) | "assemble" (line 259) | "done"
  path,       \* argument: the path to canonicalise
  exact,      \* argument: require the last component to exist
  todo,       \* pending components, left to right
  done,       \* resolved components, most recently committed first
  try,        \* loop budget, later reused as buffer length / write index
  dirfd,      \* the directory handle (-1: no handle)
  errno,      \* the C errno
  ret,        \* the value returned (NULL or a string)
  fdtab,      \* the process's open descriptors: descriptor -> location
  closeErrs,  \* close() calls of this call that failed (bad descriptor)
  live,       \* component nodes allocated by this call and not yet freed
  cwdRead,    \* whether this call read the current working directory
  calls,      \* number of calls of xabspath made so far
  prev        \* arguments and outcome of the previous call

vars == <<env, pc, path, exact, todo, done, try, dirfd, errno, ret, fdtab,
          closeErrs, live, cwdRead, calls, prev>>

-----------------------------------------------------------------------------
(* Bounds of the model *)

MaxSegs == 4
MaxCalls == 2

(* Program constants *)

TryInit == 9999
BufSize == 4096

NULL == <<"NULL">>

-----------------------------------------------------------------------------
(* Names and strings *)

A == <<"a">>
B == <<"b">>
C == <<"c">>
Dot == <<".">>
DotDot == <<".", ".">>

RECURSIVE JoinSlash(_)
JoinSlash(segs) ==
  IF segs = <<>> THEN <<>>
  ELSE IF Len(segs) = 1 THEN segs[1]
  ELSE segs[1] \o <<"/">> \o JoinSlash(Tail(segs))

AbsOf(comps) == <<"/">> \o JoinSlash(comps)

-----------------------------------------------------------------------------
(* The filesystems the process may run in *)

Dir == [kind |-> "dir", target |-> <<>>]
File == [kind |-> "file", target |-> <<>>]
Link(t) == [kind |-> "link", target |-> t]
\* a directory whose read as a symlink fails with an input/output error
\* (readlinkat: EIO) and which open() opens
FaultyDir == [kind |-> "faulty", target |-> <<>>]
\* an entry that is not a symlink and that open() refuses (EACCES)
Locked == [kind |-> "locked", target |-> <<>>]

BigTarget == [i \in 1..BufSize |-> "x"]

\* real directories, a regular file, nothing else
TreeFS ==
  (<<>> :> Dir) @@ (<<A>> :> Dir) @@ (<<A, B>> :> Dir) @@ (<<A, C>> :> Dir)
  @@ (<<A, B, A>> :> Dir) @@ (<<B>> :> File)

\* /a -> /b/c, /c -> /, /b/a -> /c/b, /b/c/a -> "" (an empty target),
\* /b/c/b -> a target that fills the whole buffer, /b/c/c -> ../a
LinksFS ==
  (<<>> :> Dir) @@ (<<A>> :> Link(AbsOf(<<B, C>>))) @@ (<<B>> :> Dir)
  @@ (<<C>> :> Link(<<"/">>))
  @@ (<<B, A>> :> Link(AbsOf(<<C, B>>))) @@ (<<B, B>> :> File)
  @@ (<<B, C>> :> Dir)
  @@ (<<B, C, A>> :> Link(<<>>)) @@ (<<B, C, B>> :> Link(BigTarget))
  @@ (<<B, C, C>> :> Link(JoinSlash(<<DotDot, A>>)))

\* /a -> /b, /b -> /a
CycleFS ==
  (<<>> :> Dir) @@ (<<A>> :> Link(AbsOf(<<B>>))) @@ (<<B>> :> Link(AbsOf(<<A>>)))

\* a directory /a that holds a directory whose symlink read fails (/a/a) and
\* an entry that cannot be opened (/a/b); /b cannot be opened either; /c is a
\* symlink whose target fills the whole buffer
FaultsFS ==
  (<<>> :> Dir) @@ (<<A>> :> Dir) @@ (<<A, A>> :> FaultyDir)
  @@ (<<A, B>> :> Locked) @@ (<<B>> :> Locked) @@ (<<C>> :> Link(BigTarget))

\* /a -> /b/c, and in /b/c the links 0 -> ".", k -> "k-1/k-1": resolving
\* link k consumes Cost(k) components, Cost(0) = 2, Cost(k) = 2*Cost(k-1)+1
DeepChars == <<"0", "1", "2", "3", "4", "5", "6", "7", "8", "9", "x", "y">>
DeepName(k) == <<DeepChars[k + 1]>>
DeepFS ==
  [loc \in {<<>>, <<A>>, <<B>>, <<B, C>>}
           \cup {<<B, C, DeepName(k)>> : k \in 0..11} |->
     IF loc = <<A>> THEN Link(AbsOf(<<B, C>>))
     ELSE IF Len(loc) < 3 THEN Dir
     ELSE LET k == CHOOSE j \in 0..11 : loc[3] = DeepName(j)
          IN IF k = 0 THEN Link(Dot)
             ELSE Link(JoinSlash(<<DeepName(k - 1), DeepName(k - 1)>>))]

\* 6143 + 3071 + 767 + 11 + 5 = 9997 components
DeepRest == <<DeepName(11), DeepName(10), DeepName(8), DeepName(2), DeepName(1)>>

Envs == {"tree", "links", "faults", "cycle", "deep"}

FS(e) ==
  CASE e = "tree" -> TreeFS
    [] e = "links" -> LinksFS
    [] e = "faults" -> FaultsFS
    [] e = "cycle" -> CycleFS
    [] e = "deep" -> DeepFS

Cwd(e) ==
  CASE e = "tree" -> AbsOf(<<A, B>>)
    [] e = "links" -> AbsOf(<<B, C>>)
    [] e = "faults" -> AbsOf(<<A>>)
    [] e = "cycle" -> <<"/">>
    [] e = "deep" -> <<"/">>

\* the path strings of at most MaxSegs segments, each empty, ".", ".." or a name
Segs == {<<>>, Dot, DotDot, A, B, C}
SegSeqs == UNION {[1..k -> Segs] : k \in 0..MaxSegs}
BoundedPaths ==
  {JoinSlash(s) : s \in SegSeqs} \cup {<<"/">> \o JoinSlash(s) : s \in SegSeqs}

Inputs(e) ==
  CASE e = "tree" -> BoundedPaths
    [] e = "links" -> BoundedPaths
    [] e = "faults" -> BoundedPaths
    [] e = "cycle" -> {AbsOf(<<A>>), JoinSlash(<<B, Dot>>)}
    [] e = "deep" -> {AbsOf(<<A>> \o DeepRest)}

-----------------------------------------------------------------------------
(* Collaborators of xabspath *)

\* splitpath(): scan the string, one node per non-empty run between '/'
RECURSIVE SplitScan(_, _, _, _)
SplitScan(s, i, start, acc) ==
  IF i <= Len(s) /\ s[i] # "/" THEN SplitScan(s, i + 1, start, acc)
  ELSE LET len == i - start
           acc2 == IF len > 0 THEN Append(acc, SubSeq(s, start, i - 1)) ELSE acc
       IN IF i > Len(s) THEN acc2 ELSE SplitScan(s, i + 1, i + 1, acc2)

splitpath(s) == SplitScan(s, 1, 1, <<>>)

Parent(loc) == IF loc = <<>> THEN <<>> ELSE SubSeq(loc, 1, Len(loc) - 1)

\* names can be looked up in an entry of this kind
IsDirKind(k) == k \in {"dir", "faulty"}

\* the lowest descriptor not in use (0, 1, 2 are the standard streams)
NewFd(tab) ==
  CHOOSE n \in 3..(3 + Cardinality(DOMAIN tab)) :
    n \notin DOMAIN tab /\ \A m \in 3..(n - 1) : m \in DOMAIN tab

\* open(): the table with a new descriptor on loc
OpenTab(tab, loc) == tab @@ (NewFd(tab) :> loc)

\* close(): the table without fd
CloseTab(tab, fd) == [d \in DOMAIN tab \ {fd} |-> tab[d]]

CloseFails(tab, fd) == fd \notin DOMAIN tab

\* readlinkat(fd, name, buf, BufSize): the length read and the bytes, or -1
\* and the error
xreadlinkat(tab, e, fd, name) ==
  IF fd \notin DOMAIN tab THEN [len |-> -1, buf |-> <<>>, err |-> "EBADF"]
  ELSE LET dir == tab[fd]
           loc == Append(dir, name)
       IN IF ~IsDirKind(FS(e)[dir].kind)
          THEN [len |-> -1, buf |-> <<>>, err |-> "ENOTDIR"]
          ELSE IF loc \notin DOMAIN FS(e)
          THEN [len |-> -1, buf |-> <<>>, err |-> "ENOENT"]
          ELSE IF FS(e)[loc].kind = "faulty"
          THEN [len |-> -1, buf |-> <<>>, err |-> "EIO"]
          ELSE IF FS(e)[loc].kind # "link"
          THEN [len |-> -1, buf |-> <<>>, err |-> "EINVAL"]
          ELSE LET t == FS(e)[loc].target
                   n == IF Len(t) > BufSize THEN BufSize ELSE Len(t)
               IN [len |-> n, buf |-> SubSeq(t, 1, n), err |-> "0"]

\* openat(fd, name, 0): the location opened, or failure and the error.
\* xabspath opens a name only after reading it as a symlink failed, so no
\* symlink of these filesystems is ever opened (its branch is not followed).
xopenat(tab, e, fd, name) ==
  IF fd \notin DOMAIN tab THEN [ok |-> FALSE, loc |-> <<>>, err |-> "EBADF"]
  ELSE LET dir == tab[fd]
           loc == IF name = DotDot THEN Parent(dir) ELSE Append(dir, name)
       IN IF ~IsDirKind(FS(e)[dir].kind)
          THEN [ok |-> FALSE, loc |-> <<>>, err |-> "ENOTDIR"]
          ELSE IF loc \notin DOMAIN FS(e)
          THEN [ok |-> FALSE, loc |-> <<>>, err |-> "ENOENT"]
          ELSE IF FS(e)[loc].kind = "locked"
          THEN [ok |-> FALSE, loc |-> <<>>, err |-> "EACCES"]
          ELSE IF FS(e)[loc].kind = "link"
          THEN [ok |-> FALSE, loc |-> <<>>, err |-> "ELOOP"]
          ELSE [ok |-> TRUE, loc |-> loc, err |-> "0"]

-----------------------------------------------------------------------------
(* xabspath, lines 167-278 *)

new == Head(todo)
rest == Tail(todo)
rl == xreadlinkat(fdtab, env, dirfd, new)

InLoop == pc = "loop" /\ todo # <<>>
IsSymlinkRead == InLoop /\ try # 0 /\ new # Dot /\ new # DotDot

\* line 174: the path is relative
IsRelative(p) == p = <<>> \/ p[1] # "/"

\* mutant: the working directory is spliced after the input's components
Seed_InputFirst(p) ==
  IF IsRelative(p) THEN splitpath(p) \o splitpath(Cwd(env)) ELSE splitpath(p)

\* lines 174-179: the pending list of a call
Seed(p) ==
  IF IsRelative(p) THEN splitpath(Cwd(env)) \o splitpath(p) ELSE splitpath(p)

\* lines 170-179: open the root, seed the pending list
Enter(p, e) ==
  /\ path' = p
  /\ exact' = e
  /\ dirfd' = NewFd(fdtab)
  /\ fdtab' = OpenTab(fdtab, <<>>)
  /\ try' = TryInit
  /\ done' = <<>>
  /\ todo' = Seed(p)
  /\ cwdRead' = IsRelative(p)
  /\ live' = Len(todo')
  /\ closeErrs' = 0
  /\ ret' = NULL
  /\ pc' = "loop"
  /\ calls' = calls + 1
  /\ UNCHANGED <<env, errno>>

\* mutant: the error exit returns without closing the handle
GotoError_NoClose(td, dn, lv, er, t) ==
  /\ errno' = er
  /\ todo' = <<>>
  /\ done' = <<>>
  /\ live' = lv - Len(td) - Len(dn)
  /\ try' = t
  /\ ret' = NULL
  /\ pc' = "done"
  /\ UNCHANGED <<env, path, exact, dirfd, fdtab, closeErrs, cwdRead, calls,
                 prev>>

\* lines 272-277: close the handle, free both lists, return NULL.
\* td, dn: the lists at the goto; lv: the live nodes; er: errno; t: try
GotoError(td, dn, lv, er, t) ==
  /\ fdtab' = CloseTab(fdtab, dirfd)
  /\ closeErrs' = closeErrs + (IF CloseFails(fdtab, dirfd) THEN 1 ELSE 0)
  /\ errno' = IF CloseFails(fdtab, dirfd) THEN "EBADF" ELSE er
  /\ todo' = <<>>
  /\ done' = <<>>
  /\ live' = lv - Len(td) - Len(dn)
  /\ try' = t
  /\ ret' = NULL
  /\ pc' = "done"
  /\ UNCHANGED <<env, path, exact, dirfd, cwdRead, calls, prev>>

\* mutant: every failed open is fatal
MoveHandle_NoTolerance(s, td, dn, lv) ==
  LET op == xopenat(fdtab, env, dirfd, s)
  IN IF ~op.ok
     THEN GotoError(td, dn, lv, op.err, try - 1)
     ELSE /\ fdtab' = CloseTab(OpenTab(fdtab, op.loc), dirfd)
          /\ dirfd' = NewFd(fdtab)
          /\ closeErrs' = closeErrs + (IF CloseFails(fdtab, dirfd) THEN 1 ELSE 0)
          /\ errno' = IF CloseFails(fdtab, dirfd) THEN "EBADF" ELSE errno
          /\ todo' = td
          /\ done' = dn
          /\ live' = lv
          /\ try' = try - 1
          /\ UNCHANGED <<env, pc, path, exact, ret, cwdRead, calls, prev>>

\* lines 218-222: open s under the handle and move the handle there.
\* td, dn, lv: the lists and live nodes once the component is dealt with
MoveHandle(s, td, dn, lv) ==
  LET op == xopenat(fdtab, env, dirfd, s)
  IN IF ~op.ok /\ (exact \/ td # <<>> \/ op.err # "ENOENT")
     THEN GotoError(td, dn, lv, op.err, try - 1)
     ELSE /\ fdtab' = IF op.ok THEN CloseTab(OpenTab(fdtab, op.loc), dirfd)
                      ELSE CloseTab(fdtab, dirfd)
          /\ dirfd' = IF op.ok THEN NewFd(fdtab) ELSE -1
          /\ closeErrs' = closeErrs + (IF CloseFails(fdtab, dirfd) THEN 1 ELSE 0)
          /\ errno' = IF CloseFails(fdtab, dirfd) THEN "EBADF"
                      ELSE IF op.ok THEN errno ELSE op.err
          /\ todo' = td
          /\ done' = dn
          /\ live' = lv
          /\ try' = try - 1
          /\ UNCHANGED <<env, pc, path, exact, ret, cwdRead, calls, prev>>

\* mutant: the budget is refilled instead of ending the call
BudgetExhausted_Retry ==
  /\ InLoop
  /\ try = 0
  /\ try' = TryInit
  /\ UNCHANGED <<env, pc, path, exact, todo, done, dirfd, errno, ret, fdtab,
                 closeErrs, live, cwdRead, calls, prev>>

\* lines 186-189: the budget is used up
BudgetExhausted ==
  /\ InLoop
  /\ try = 0
  /\ GotoError(rest, done, live, "ELOOP", try - 1)

\* mutant: "." is committed like a name
ConsumeDot_Commit ==
  /\ InLoop
  /\ try # 0
  /\ new = Dot
  /\ todo' = rest
  /\ done' = <<new>> \o done
  /\ try' = try - 1
  /\ UNCHANGED <<env, pc, path, exact, dirfd, errno, ret, fdtab,
                 closeErrs, live, cwdRead, calls, prev>>

\* mutant: "." is dropped without using the budget
ConsumeDot_Free ==
  /\ InLoop
  /\ try # 0
  /\ new = Dot
  /\ todo' = rest
  /\ live' = live - 1
  /\ UNCHANGED <<env, pc, path, exact, done, try, dirfd, errno, ret, fdtab,
                 closeErrs, cwdRead, calls, prev>>

\* lines 192-199, "."
ConsumeDot ==
  /\ InLoop
  /\ try # 0
  /\ new = Dot
  /\ todo' = rest
  /\ try' = try - 1
  /\ live' = live - 1
  /\ UNCHANGED <<env, pc, path, exact, done, dirfd, errno, ret, fdtab,
                 closeErrs, cwdRead, calls, prev>>

\* mutant: ".." moves the handle and leaves the resolved list alone
ConsumeDotDot_NoPop ==
  /\ InLoop
  /\ try # 0
  /\ new = DotDot
  /\ MoveHandle(DotDot, rest, done, live - 1)

\* lines 192-198 and 205-222, "..": drop the last resolved component, move
\* the handle to its parent
ConsumeDotDot ==
  /\ InLoop
  /\ try # 0
  /\ new = DotDot
  /\ IF done # <<>>
     THEN MoveHandle(DotDot, rest, Tail(done), live - 2)
     ELSE MoveHandle(DotDot, rest, done, live - 1)

\* mutant: the resolved list survives an absolute target
ResetDone_Keep(isabs, dn) == dn

\* lines 227-229: an absolute target discards the resolved list
ResetDone(isabs, dn) == IF isabs THEN <<>> ELSE dn

\* mutant: the target's components are queued behind the pending list
Splice_Behind(comps, td) == td \o comps

\* mutant: the target's components are queued right to left
Splice_RightToLeft(comps, td) ==
  [i \in 1..Len(comps) |-> comps[Len(comps) + 1 - i]] \o td

\* lines 236-242: the target's components go in front of the pending list
Splice(comps, td) == comps \o td

\* lines 202, 225-242: the component is a symlink; splice its target in
\* front of the pending list
ReadSymlink ==
  /\ IsSymlinkRead
  /\ rl.len >= 1
  /\ rl.len <= BufSize - 1
  /\ LET isabs == rl.buf[1] = "/"
         comps == splitpath(rl.buf)
     IN /\ done' = ResetDone(isabs, done)
        /\ fdtab' = IF isabs THEN OpenTab(CloseTab(fdtab, dirfd), <<>>) ELSE fdtab
        /\ dirfd' = IF isabs THEN NewFd(CloseTab(fdtab, dirfd)) ELSE dirfd
        /\ closeErrs' = closeErrs +
                        (IF isabs /\ CloseFails(fdtab, dirfd) THEN 1 ELSE 0)
        /\ errno' = IF isabs /\ CloseFails(fdtab, dirfd) THEN "EBADF" ELSE errno
        /\ live' = live - (IF isabs THEN Len(done) ELSE 0) - 1 + Len(comps)
        /\ todo' = Splice(comps, rest)
  /\ try' = try - 1
  /\ UNCHANGED <<env, pc, path, exact, ret, cwdRead, calls, prev>>

\* line 204: the target fills the buffer
SymlinkTooLong ==
  /\ IsSymlinkRead
  /\ rl.len > BufSize - 1
  /\ GotoError(rest, done, live, errno, try - 1)

\* lines 205-222 with len = 0: a symlink with an empty target
ZeroLengthTarget ==
  /\ IsSymlinkRead
  /\ rl.len = 0
  /\ MoveHandle(DotDot, rest, done, live)

\* mutant: the failed read is ignored and the component committed
ReadFails_Commit ==
  /\ IsSymlinkRead
  /\ rl.len < 0
  /\ (exact \/ rest # <<>>) /\ rl.err # "EINVAL"
  /\ done' = <<new>> \o done
  /\ todo' = rest
  /\ errno' = rl.err
  /\ try' = try - 1
  /\ UNCHANGED <<env, pc, path, exact, dirfd, ret, fdtab, closeErrs, live,
                 cwdRead, calls, prev>>

\* line 212: the read failed and the component must exist
ReadFails ==
  /\ IsSymlinkRead
  /\ rl.len < 0
  /\ (exact \/ rest # <<>>) /\ rl.err # "EINVAL"
  /\ GotoError(rest, done, live, rl.err, try - 1)

\* mutant: the last component is opened like any other
CommitLast_Open ==
  /\ IsSymlinkRead
  /\ rl.len < 0
  /\ rl.err = "EINVAL" /\ rest = <<>>
  /\ MoveHandle(new, rest, <<new>> \o done, live)

\* lines 213-215: the last component exists and is no symlink
CommitLast ==
  /\ IsSymlinkRead
  /\ rl.len < 0
  /\ rl.err = "EINVAL" /\ rest = <<>>
  /\ done' = <<new>> \o done
  /\ todo' = rest
  /\ errno' = rl.err
  /\ try' = try - 1
  /\ UNCHANGED <<env, pc, path, exact, dirfd, ret, fdtab, closeErrs, live,
                 cwdRead, calls, prev>>

\* lines 213-222: commit the component and open it
CommitOpen ==
  /\ IsSymlinkRead
  /\ rl.len < 0
  /\ ~((exact \/ rest # <<>>) /\ rl.err # "EINVAL")
  /\ ~(rl.err = "EINVAL" /\ rest = <<>>)
  /\ MoveHandle(new, rest, <<new>> \o done, live)

\* mutant: a separator is counted for every component
RECURSIVE ReverseCount_SepEach(_, _, _)
ReverseCount_SepEach(dn, td, t) ==
  IF dn = <<>> THEN [todo |-> td, try |-> t]
  ELSE ReverseCount_SepEach(Tail(dn), <<Head(dn)>> \o td, t + 1 + Len(Head(dn)))

\* lines 249-257: reverse done onto todo, adding up the buffer length
RECURSIVE ReverseCount(_, _, _)
ReverseCount(dn, td, t) ==
  IF dn = <<>> THEN [todo |-> td, try |-> t]
  ELSE ReverseCount(Tail(dn), <<Head(dn)>> \o td,
                    (IF td # <<>> THEN t + 1 ELSE t) + Len(Head(dn)))

\* lines 244-257: the loop is over
ExitLoop ==
  /\ pc = "loop"
  /\ todo = <<>>
  /\ fdtab' = CloseTab(fdtab, dirfd)
  /\ closeErrs' = closeErrs + (IF CloseFails(fdtab, dirfd) THEN 1 ELSE 0)
  /\ errno' = IF CloseFails(fdtab, dirfd) THEN "EBADF" ELSE errno
  /\ LET r == ReverseCount(done, todo, 2)
     IN todo' = r.todo /\ try' = r.try
  /\ done' = <<>>
  /\ pc' = "assemble"
  /\ UNCHANGED <<env, path, exact, dirfd, ret, live, cwdRead, calls, prev>>

\* mutant: a "/" in front of every component, nothing for an empty list
RECURSIVE Concat_SlashEach(_, _)
Concat_SlashEach(td, r) ==
  IF td = <<>> THEN (IF r = <<"/">> THEN <<>> ELSE r)
  ELSE Concat_SlashEach(Tail(td),
                        (IF r = <<"/">> THEN <<>> ELSE r) \o <<"/">> \o Head(td))

\* lines 262-268: "/" and the components with "/" between them
RECURSIVE Concat(_, _)
Concat(td, r) ==
  IF td = <<>> THEN r
  ELSE Concat(Tail(td), (IF Len(r) > 1 THEN r \o <<"/">> ELSE r) \o Head(td))

\* lines 261-270
Assemble ==
  /\ pc = "assemble"
  /\ ret' = Concat(todo, <<"/">>)
  /\ try' = Len(ret')
  /\ live' = live - Len(todo)
  /\ todo' = <<>>
  /\ pc' = "done"
  /\ UNCHANGED <<env, path, exact, done, dirfd, errno, fdtab, closeErrs,
                 cwdRead, calls, prev>>

-----------------------------------------------------------------------------
(* Callers *)

NoCall == [path |-> NULL, exact |-> FALSE, ret |-> NULL, errno |-> "0"]

\* the rest of an absolute path after its first component
RestAfterFirst(p) ==
  LET i == CHOOSE k \in 1..Len(p) :
             p[k] # "/" /\ \A j \in 1..(k - 1) : p[j] = "/"
      ends == {k \in i..Len(p) : p[k] = "/"}
      j == IF ends = {} THEN Len(p) + 1
           ELSE CHOOSE k \in ends : \A m \in ends : k <= m
  IN SubSeq(p, j, Len(p))

\* p starts with a symlink of the root directory whose target is absolute
StartsWithAbsLink(p) ==
  /\ p # <<>> /\ p[1] = "/"
  /\ splitpath(p) # <<>>
  /\ <<splitpath(p)[1]>> \in DOMAIN FS(env)
  /\ FS(env)[<<splitpath(p)[1]>>].kind = "link"
  /\ FS(env)[<<splitpath(p)[1]>>].target # <<>>
  /\ FS(env)[<<splitpath(p)[1]>>].target[1] = "/"

\* p with that symlink replaced by its target
Substituted(p) == FS(env)[<<splitpath(p)[1]>>].target \o RestAfterFirst(p)

FirstCall ==
  /\ pc = "idle"
  /\ \E p \in Inputs(env), e \in BOOLEAN : Enter(p, e)
  /\ UNCHANGED prev

\* a caller canonicalises the result again, or the path with its leading
\* symlink written out
Recall ==
  /\ pc = "done"
  /\ calls < MaxCalls
  /\ \E p \in (IF ret # NULL THEN {ret} ELSE {})
              \cup (IF StartsWithAbsLink(path) THEN {Substituted(path)} ELSE {}) :
       Enter(p, exact)
  /\ prev' = [path |-> path, exact |-> exact, ret |-> ret, errno |-> errno]

Init ==
  /\ env \in Envs
  /\ pc = "idle"
  /\ path = NULL
  /\ exact = FALSE
  /\ todo = <<>>
  /\ done = <<>>
  /\ try = 0
  /\ dirfd = -1
  /\ errno = "0"
  /\ ret = NULL
  /\ fdtab = <<>>
  /\ closeErrs = 0
  /\ live = 0
  /\ cwdRead = FALSE
  /\ calls = 0
  /\ prev = NoCall

Next ==
  \/ FirstCall
  \/ Recall
  \/ BudgetExhausted
  \/ ConsumeDot
  \/ ConsumeDotDot
  \/ ReadSymlink
  \/ SymlinkTooLong
  \/ ZeroLengthTarget
  \/ ReadFails
  \/ CommitLast
  \/ CommitOpen
  \/ ExitLoop
  \/ Assemble

Spec == Init /\ [][Next]_vars

\* a call that was entered runs on: xabspath is sequential code
Running ==
  BudgetExhausted \/ ConsumeDot \/ ConsumeDotDot \/ ReadSymlink
  \/ SymlinkTooLong \/ ZeroLengthTarget \/ ReadFails \/ CommitLast
  \/ CommitOpen \/ ExitLoop \/ Assemble

FairSpec == Spec /\ WF_vars(Running)

-----------------------------------------------------------------------------
(* C1: every call terminates, and a call in the filesystem whose only      *)
(* entries are the symlink cycle /a -> /b, /b -> /a returns NULL with      *)
(* errno ELOOP.                                                            *)
C1_CycleTerminates ==
  /\ (pc = "loop") ~> (pc = "done")
  /\ [](pc = "done" /\ env = "cycle" => ret = NULL /\ errno = "ELOOP")

C1_Witness ==
  pc = "done" /\ env = "cycle" /\ ret = NULL /\ errno = "ELOOP" /\ try = -1

-----------------------------------------------------------------------------
(* What the claims speak of *)

\* the components a path stands for, the working directory's first
Components(p) ==
  (IF IsRelative(p) THEN splitpath(Cwd(env)) ELSE <<>>) \o splitpath(p)

Nowhere == <<<<"/">>>>

\* where comps lead from loc when every step is a real directory
RECURSIVE WalkDirs(_, _)
WalkDirs(loc, comps) ==
  IF comps = <<>> THEN loc
  ELSE LET c == Head(comps)
           nxt == IF c = Dot THEN loc
                  ELSE IF c = DotDot THEN Parent(loc) ELSE Append(loc, c)
       IN IF nxt \in DOMAIN FS(env) /\ FS(env)[nxt].kind = "dir"
          THEN WalkDirs(nxt, Tail(comps))
          ELSE Nowhere

LastOf(p) == Components(p)[Len(Components(p))]
ParentOf(p) ==
  WalkDirs(<<>>, SubSeq(Components(p), 1, Len(Components(p)) - 1))

\* all components but the last are real directories, the last is a name
\* its parent does not hold
MissingLast(p) ==
  /\ Components(p) # <<>>
  /\ LastOf(p) # Dot /\ LastOf(p) # DotDot
  /\ ParentOf(p) # Nowhere
  /\ Append(ParentOf(p), LastOf(p)) \notin DOMAIN FS(env)

(* C2: when all components of the path but the last are real directories  *)
(* and the last does not exist, the call returns NULL with exact on, and   *)
(* with exact off the canonical parent followed by the last name.          *)
C2_ExistenceModes ==
  pc = "done" /\ MissingLast(path) =>
    IF exact THEN ret = NULL
    ELSE ret = AbsOf(Append(ParentOf(path), LastOf(path)))

C2_Witness ==
  /\ pc = "done" /\ ~exact /\ MissingLast(path)
  /\ Len(splitpath(path)) >= 2
  /\ ret = AbsOf(Append(ParentOf(path), LastOf(path)))

\* the step reads a component that does not exist
ReadsMissing == IsSymlinkRead /\ rl.len < 0 /\ rl.err = "ENOENT"

SlashAThen(p) ==
  /\ <<A>> \in DOMAIN FS(env)
  /\ FS(env)[<<A>>] = Link(AbsOf(<<B, C>>))
  /\ Len(p) >= 2 /\ p[1] = "/" /\ p[2] = "a"
  /\ (Len(p) = 2 \/ p[3] = "/")

SlashBCThen(p) == AbsOf(<<B, C>>) \o SubSeq(p, 3, Len(p))

\* this call is that of /b/c/d after the call of /a/d, in the same mode
AfterSubstitution ==
  /\ pc = "done" /\ calls >= 2
  /\ SlashAThen(prev.path)
  /\ path = SlashBCThen(prev.path)
  /\ exact = prev.exact

(* C4 as claimed: with /a -> /b/c, the calls of /a/d and of /b/c/d give    *)
(* the same outcome, for every d and both modes.                           *)
C4_SameOutcome == AfterSubstitution => ret = prev.ret

(* C4, amended: with /a -> /b/c, the calls of /a/d and of /b/c/d give the  *)
(* same outcome unless the call of /a/d, which consumes one component      *)
(* more, runs out of the loop budget (NULL with ELOOP).                    *)
C4_SameOutcomeWithinBudget ==
  AfterSubstitution /\ ~(prev.ret = NULL /\ prev.errno = "ELOOP") =>
    ret = prev.ret

C4_Witness ==
  /\ AfterSubstitution /\ env = "links"
  /\ prev.path = AbsOf(<<A, DotDot, C>>)
  /\ ret = prev.ret /\ ret = AbsOf(<<B, C>>)

IsCanonical(r) ==
  /\ r # <<>> /\ r[1] = "/"
  /\ Len(r) > 1 => r[Len(r)] # "/"
  /\ \A i \in 1..(Len(r) - 1) : ~(r[i] = "/" /\ r[i + 1] = "/")
  /\ \A i \in 1..Len(splitpath(r)) :
       splitpath(r)[i] # Dot /\ splitpath(r)[i] # DotDot

(* C5: a result that is not NULL starts with "/", has no empty component,  *)
(* no trailing "/" unless it is "/", no "." and no ".." component; and the *)
(* resolved list only ever grows by the component just consumed, whose     *)
(* read as a symlink failed.                                               *)
C5_CanonicalResult ==
  /\ [](pc = "done" /\ ret # NULL => IsCanonical(ret))
  /\ [][Len(done') > Len(done) =>
          /\ IsSymlinkRead /\ rl.len < 0
          /\ done' = <<new>> \o done]_vars

C5_Witness ==
  /\ pc = "done" /\ env = "links"
  /\ path = JoinSlash(<<Dot, C, Dot, B>>) /\ ret = AbsOf(<<B, B>>)

(* C6: a step that consumes ".." and does not end the call drops the head  *)
(* of the resolved list, and leaves an empty resolved list empty; with     *)
(* real directories /a/b/../c gives /a/c and /../a gives /a.               *)
C6_DotDotCollapse ==
  /\ [][InLoop /\ try # 0 /\ new = DotDot /\ pc' = "loop" =>
          done' = IF done = <<>> THEN <<>> ELSE Tail(done)]_vars
  /\ [](pc = "done" /\ env = "tree" =>
          /\ path = AbsOf(<<A, B, DotDot, C>>) => ret = AbsOf(<<A, C>>)
          /\ path = AbsOf(<<DotDot, A>>) => ret = AbsOf(<<A>>))

C6_Witness ==
  /\ pc = "done" /\ env = "tree"
  /\ path = AbsOf(<<A, B, DotDot, C>>) /\ ret = AbsOf(<<A, C>>)

\* the step reads a symlink whose target is absolute
ReadsAbsolute ==
  IsSymlinkRead /\ rl.len >= 1 /\ rl.len <= BufSize - 1 /\ rl.buf[1] = "/"

(* C7: right after a symlink with an absolute target is consumed the       *)
(* resolved list is empty, the handle is open on the root and the pending  *)
(* list is the target's components followed by what followed the symlink;  *)
(* after a target "/" it is what followed the symlink.                     *)
C7_AbsoluteTargetReset ==
  [][ReadsAbsolute =>
       /\ done' = <<>>
       /\ dirfd' \in DOMAIN fdtab' /\ fdtab'[dirfd'] = <<>>
       /\ todo' = splitpath(rl.buf) \o rest
       /\ (rl.buf = <<"/">> => todo' = rest)]_vars

C7_Witness ==
  /\ pc = "loop" /\ env = "links" /\ path = AbsOf(<<B, A, C>>)
  /\ done = <<>> /\ todo = <<C, B, C>>
  /\ dirfd \in DOMAIN fdtab /\ fdtab[dirfd] = <<>>

(* C8: a result that is not NULL, canonicalised again in the same mode,    *)
(* comes back unchanged.                                                   *)
C8_Idempotent ==
  pc = "done" /\ calls >= 2 /\ prev.ret # NULL
    /\ path = prev.ret /\ exact = prev.exact => ret = path

(* C9: before the first step the pending list is the components of the    *)
(* working directory followed by those of a relative input, and those of   *)
(* an absolute input alone, for which the working directory is not read;   *)
(* with working directory /a/b, real directories only, and z a name that   *)
(* exists or exact off, the call of z gives /a/b/z.                        *)
C9_RelativeResolution ==
  /\ pc = "loop" /\ try = TryInit =>
       /\ cwdRead = (path = <<>> \/ path[1] # "/")
       /\ cwdRead => todo = splitpath(Cwd(env)) \o splitpath(path)
       /\ ~cwdRead => todo = splitpath(path)
  /\ pc = "done" /\ env = "tree" /\ (path = A \/ (path = C /\ ~exact)) =>
       ret = Cwd(env) \o <<"/">> \o path

C9_Witness ==
  /\ pc = "done" /\ env = "tree" /\ path = C /\ ~exact
  /\ ret = AbsOf(<<A, B, C>>)

\* p is not the empty string and every component of p is "."
AllDots(p) ==
  p # <<>> /\ \A i \in 1..Len(splitpath(p)) : splitpath(p)[i] = Dot

(* C10 as claimed: an input whose components are all empty or "." gives    *)
(* "/", in both modes.                                                     *)
C10_TrivialGivesRoot == pc = "done" /\ AllDots(path) => ret = <<"/">>

(* C10, amended: an input that starts with "/" and whose components are    *)
(* all empty or ".", at most TryInit of them ".", gives "/" in both modes; *)
(* and whenever the resolved list is empty when the loop ends, the result  *)
(* is "/".                                                                 *)
C10_AbsoluteTrivialGivesRoot ==
  /\ [](pc = "done" /\ ~IsRelative(path) /\ AllDots(path)
          /\ Len(splitpath(path)) <= TryInit => ret = <<"/">>)
  /\ [][pc = "loop" /\ todo = <<>> /\ done = <<>> =>
          pc' = "assemble" /\ todo' = <<>>]_vars
  /\ [][pc = "assemble" /\ todo = <<>> => ret' = <<"/">>]_vars

C10_Witness ==
  pc = "done" /\ path = <<"/", ".", "/">> /\ exact /\ ret = <<"/">>

-----------------------------------------------------------------------------
(* C11 as claimed: when the call returns every component node it created   *)
(* has been freed, and during the call every live node is in the pending   *)
(* or the resolved list (the node being processed is put in a list or      *)
(* freed within its step).                                                 *)
C11_NoNodeLeak ==
  /\ pc = "done" => live = 0
  /\ pc \in {"loop", "assemble"} => live = Len(todo) + Len(done)

\* the step uses the handle: a symlink read, or the open of ".."
UsesHandle == IsSymlinkRead \/ (InLoop /\ try # 0 /\ new = DotDot)

(* C12: when the call returns no handle it opened is still open; a close   *)
(* that fails is the close of the value -1 (no handle), never of a handle  *)
(* closed before; and every symlink read and every open relative to the    *)
(* handle uses an open handle.                                             *)
C12_HandlesClosedOnce ==
  /\ [](pc = "done" => fdtab = <<>>)
  /\ [][closeErrs' > closeErrs => dirfd = -1]_vars
  /\ [](UsesHandle => dirfd \in DOMAIN fdtab)

C12_Witness ==
  /\ pc = "done" /\ env = "links" /\ path = AbsOf(<<B, A, C>>)
  /\ ret = AbsOf(<<B, C>>) /\ fdtab = <<>> /\ closeErrs = 0

\* the name the step opens relative to the handle when its read gave no target
opened == IF new = DotDot \/ (IsSymlinkRead /\ rl.len = 0) THEN DotDot ELSE new

(* C13 as claimed: a step that ends the call with NULL leaves in errno the *)
(* code of its own failure: ELOOP when the budget was used up, else the    *)
(* code of the symlink read that failed, else the code of the open that    *)
(* failed.                                                                 *)
C13_ErrnoFromFailingStep ==
  [][pc = "loop" /\ pc' = "done" =>
       \/ try = 0 /\ errno' = "ELOOP"
       \/ try # 0 /\ IsSymlinkRead /\ rl.len < 0 /\ errno' = rl.err
       \/ /\ try # 0 /\ ~(IsSymlinkRead /\ rl.len > 0)
          /\ ~xopenat(fdtab, env, dirfd, opened).ok
          /\ errno' = xopenat(fdtab, env, dirfd, opened).err]_vars

\* the symlink read of the step fails with this code
ReadFailsWith(codes) == IsSymlinkRead /\ rl.len < 0 /\ rl.err \in codes

(* C14 as claimed: a step whose symlink read fails with a code other than  *)
(* EINVAL and ENOENT ends the call with NULL, in both modes and whether or *)
(* not components are pending.                                             *)
C14_OtherReadErrorFatal ==
  [][ReadFailsWith({"EIO", "ENOTDIR", "EBADF"}) =>
       pc' = "done" /\ ret' = NULL]_vars

\* the step commits the component and leaves the handle where it is
CommitsUnopened ==
  /\ done' = <<new>> \o done /\ todo' = <<>>
  /\ dirfd' = dirfd /\ fdtab' = fdtab /\ pc' = "loop"

\* the step commits the component and moves the handle to it, or ends the
\* call with NULL if it cannot be opened
CommitsOpened ==
  LET op == xopenat(fdtab, env, dirfd, new)
  IN IF op.ok
     THEN /\ done' = <<new>> \o done /\ pc' = "loop"
          /\ dirfd' \in DOMAIN fdtab' /\ fdtab'[dirfd'] = op.loc
     ELSE pc' = "done" /\ ret' = NULL

(* C15 as claimed: when the symlink read reports EINVAL and more           *)
(* components are pending, or exact is on and the component is the last,   *)
(* a component that cannot be opened ends the call with NULL.              *)
C15_NotSymlinkOpened ==
  [][/\ ReadFailsWith({"EINVAL"}) /\ (rest # <<>> \/ exact)
     /\ ~xopenat(fdtab, env, dirfd, new).ok
     => pc' = "done" /\ ret' = NULL]_vars

(* C15, amended: when the symlink read reports EINVAL and more components  *)
(* are pending, the component is opened and a failed open ends the call    *)
(* with NULL; when the component is the last pending one it is committed   *)
(* without being opened, in both modes, and the loop ends.                 *)
C15_NotSymlinkOpenedWhenPending ==
  [][ReadFailsWith({"EINVAL"}) =>
       IF rest # <<>> THEN CommitsOpened ELSE CommitsUnopened]_vars

C15_Witness ==
  /\ pc = "done" /\ env = "faults" /\ path = AbsOf(<<A, B>>) /\ exact
  /\ ret = AbsOf(<<A, B>>)

\* the components of a list in the order they were committed
CommitOrder(dn) == [i \in 1..Len(dn) |-> dn[Len(dn) + 1 - i]]

(* C16 as claimed: at the start of every loop iteration the handle is open *)
(* on the directory that the resolved list names, read in the order the    *)
(* components were committed (the root when the list is empty).            *)
C16_CursorMatchesResolved ==
  InLoop => dirfd \in DOMAIN fdtab /\ fdtab[dirfd] = CommitOrder(done)

(* C17 as claimed: from the open of the root to the close after the loop   *)
(* the handle variable holds an open handle and it is the only one open,   *)
(* also after a missing last component was tolerated.                      *)
C17_OneLiveHandle ==
  pc = "loop" => dirfd \in DOMAIN fdtab /\ DOMAIN fdtab = {dirfd}

(* C18: the budget starts at TryInit; every step that consumes a pending   *)
(* component, whatever its kind, takes one from it; and such a step ends   *)
(* the call with NULL and ELOOP exactly when the budget was already zero.  *)
C18_LoopBudget ==
  /\ [][pc # "loop" /\ pc' = "loop" => try' = TryInit]_vars
  /\ [][InLoop =>
          /\ try' = try - 1
          /\ (pc' = "done" /\ ret' = NULL /\ errno' = "ELOOP") <=> (try = 0)]_vars

\* TryInit components were consumed and the call goes on to succeed
C18_Witness ==
  pc = "loop" /\ env = "deep" /\ try = 0 /\ todo = <<>>

\* the step reads a symlink with a target of 1 to BufSize - 1 bytes
ReadsTarget == IsSymlinkRead /\ rl.len >= 1 /\ rl.len <= BufSize - 1

(* C19: a step that reads a symlink with a non-empty target leaves as      *)
(* pending list the target's components, left to right, followed by what   *)
(* was pending after the symlink; the symlink's name is not committed; and *)
(* for a relative target the resolved list and the handle are unchanged.   *)
C19_FrontSplice ==
  [][ReadsTarget =>
       /\ todo' = splitpath(rl.buf) \o rest
       /\ (done' = done \/ done' = <<>>)
       /\ (rl.buf[1] # "/" =>
             done' = done /\ dirfd' = dirfd /\ fdtab' = fdtab)]_vars

C19_Witness ==
  /\ pc = "loop" /\ env = "links" /\ path = AbsOf(<<B, C, C, B>>)
  /\ todo = <<DotDot, A, B>> /\ done = <<C, B>>
  /\ dirfd \in DOMAIN fdtab /\ fdtab[dirfd] = <<B, C>>

RECURSIVE SumLen(_)
SumLen(comps) == IF comps = <<>> THEN 0 ELSE Len(Head(comps)) + SumLen(Tail(comps))

\* the bytes of the result for these components: the leading "/", the
\* components, a separator between two components, the terminator
BytesFor(comps) ==
  1 + SumLen(comps) + (IF Len(comps) > 1 THEN Len(comps) - 1 ELSE 0) + 1

(* C20: when the loop is over the resolved list is reversed onto the empty *)
(* pending list and the length computed is that of "/", the components,    *)
(* one separator between two components and the terminator; the string     *)
(* assembled is "/" followed by the components in commit order joined by   *)
(* "/", it fills the buffer exactly, and both lists are empty afterwards.  *)
C20_Assembler ==
  /\ [][pc = "loop" /\ todo = <<>> =>
          /\ todo' = CommitOrder(done) /\ done' = <<>>
          /\ try' = BytesFor(done)]_vars
  /\ [][pc = "assemble" =>
          /\ ret' = AbsOf(todo) /\ Len(ret') + 1 = try
          /\ todo' = <<>> /\ done' = <<>>]_vars

C20_Witness ==
  /\ pc = "assemble" /\ env = "tree" /\ path = JoinSlash(<<A, DotDot, A>>)
  /\ todo = <<A, B, A>> /\ try = 7

====
